---- MODULE Spec2Model ----
(***************************************************************************)
(* Model of LAB_REPORT_3.py: a priority-ranked rule engine                 *)
(* (evaluate_condition, rule_matches, run_rules) and the Streamlit script  *)
(* that feeds it a form's facts and a JSON rule document.                  *)
(*                                                                         *)
(* Python values are tagged records [t, v]:                                *)
(*   "num"  : v an integer.  cgpa values (facts and rule literals) are     *)
(*            held in hundredths (3.7 is 370), every other number as is;   *)
(*   "str"  : v the sequence of the string's character codes;              *)
(*   "list" : v a sequence of "num"/"str" values.                          *)
(* A Python call returns [exc, val]: exc = "none" and the value, or the    *)
(* name of the exception it raised.                                        *)
(***************************************************************************)
EXTENDS Integers, Sequences, FiniteSets

\* call       : the engine function called and its arguments (lines 69-81)
\* ret        : what that call returned or raised
\* facts      : the facts dict the script builds from the form (lines 121-128)
\* rules_json : the text of the rule editor (lines 113-117)
\* run        : the value of the Evaluate button in the last run (line 118)
\* rules      : the rule collection after the try / except (lines 136-140)
\* outcome    : action, matched_rules of line 143, or the exception raised
VARIABLES call, ret, facts, rules_json, run, rules, outcome

vars == <<call, ret, facts, rules_json, run, rules, outcome>>

(* ---------------- bounds ---------------- *)
MaxConds == 2
MaxRules == 3

(* ---------------- Python values ---------------- *)
Num(n) == [t |-> "num", v |-> n]
Str(s) == [t |-> "str", v |-> s]
List(l) == [t |-> "list", v |-> l]

Ok(b) == [exc |-> "none", val |-> b]
Raise(e) == [exc |-> e, val |-> FALSE]

Min(a, b) == IF a <= b THEN a ELSE b

\* a == b on scalars: values of different types are unequal, never an error
scalar_eq(a, b) == a.t = b.t /\ a.v = b.v

\* a == b: lists compare element by element
py_eq(a, b) ==
  IF a.t = "list" /\ b.t = "list"
  THEN Len(a.v) = Len(b.v) /\ \A i \in 1..Len(a.v) : scalar_eq(a.v[i], b.v[i])
  ELSE a.t = b.t /\ a.t # "list" /\ a.v = b.v

int_cmp(op, x, y) ==
  CASE op = ">"  -> x > y
    [] op = ">=" -> x >= y
    [] op = "<"  -> x < y
    [] op = "<=" -> x <= y

\* first index at which two sequences of integers differ, 0 when one is a
\* prefix of the other
first_diff(a, b) ==
  LET D == {i \in 1..Min(Len(a), Len(b)) : a[i] # b[i]}
  IN IF D = {} THEN 0 ELSE CHOOSE i \in D : \A j \in D : i <= j

\* str <op> str: lexicographic on character codes
str_cmp(op, a, b) ==
  LET i == first_diff(a, b)
  IN IF i = 0 THEN int_cmp(op, Len(a), Len(b)) ELSE int_cmp(op, a[i], b[i])

\* ordered comparison of scalars: defined inside one type only
scalar_cmp(op, a, b) ==
  IF a.t = "num" /\ b.t = "num" THEN Ok(int_cmp(op, a.v, b.v))
  ELSE IF a.t = "str" /\ b.t = "str" THEN Ok(str_cmp(op, a.v, b.v))
  ELSE Raise("TypeError")

\* list <op> list: the first pair of unequal elements decides, else the lengths
list_cmp(op, a, b) ==
  LET D == {i \in 1..Min(Len(a), Len(b)) : ~scalar_eq(a[i], b[i])}
  IN IF D = {} THEN Ok(int_cmp(op, Len(a), Len(b)))
     ELSE LET i == CHOOSE k \in D : \A j \in D : k <= j
          IN scalar_cmp(op, a[i], b[i])

\* operator.gt / ge / lt / le
py_cmp(op, a, b) ==
  IF a.t = "list" /\ b.t = "list" THEN list_cmp(op, a.v, b.v)
  ELSE IF a.t = "list" \/ b.t = "list" THEN Raise("TypeError")
  ELSE scalar_cmp(op, a, b)

is_substring(a, b) ==
  Len(a) <= Len(b) /\ \E i \in 0..(Len(b) - Len(a)) : SubSeq(b, i + 1, i + Len(a)) = a

\* a in b: membership in a list, substring of a str, TypeError otherwise
py_in(a, b) ==
  IF b.t = "list" THEN Ok(\E i \in 1..Len(b.v) : py_eq(a, b.v[i]))
  ELSE IF b.t = "str" /\ a.t = "str" THEN Ok(is_substring(a.v, b.v))
  ELSE Raise("TypeError")

py_not(r) == IF r.exc = "none" THEN Ok(~r.val) ELSE r

(* ---------------- RULE ENGINE ---------------- *)
\* the keys of the OPS table
OPS == {"==", "!=", ">", ">=", "<", "<=", "in", "not_in"}

\* OPS[op](a, b)
apply_op(op, a, b) ==
  CASE op = "=="     -> Ok(py_eq(a, b))
    [] op = "!="     -> Ok(~py_eq(a, b))
    [] op = "in"     -> py_in(a, b)
    [] op = "not_in" -> py_not(py_in(a, b))
    [] OTHER         -> py_cmp(op, a, b)

evaluate_condition_nofield(f, cond) ==
  IF Len(cond) # 3 THEN Raise("ValueError")
  ELSE IF cond[2] \notin OPS THEN Ok(FALSE)
  ELSE IF cond[1] \notin DOMAIN f THEN Raise("KeyError")
  ELSE apply_op(cond[2], f[cond[1]], cond[3])

evaluate_condition_noop(f, cond) ==
  IF Len(cond) # 3 THEN Raise("ValueError")
  ELSE IF cond[1] \notin DOMAIN f THEN Ok(FALSE)
  ELSE IF cond[2] \notin OPS THEN Raise("KeyError")
  ELSE apply_op(cond[2], f[cond[1]], cond[3])

\* field, op, value = cond; field in facts and op in OPS and OPS[op](...)
evaluate_condition(f, cond) ==
  IF Len(cond) # 3 THEN Raise("ValueError")
  ELSE IF cond[1] \notin DOMAIN f THEN Ok(FALSE)
  ELSE IF cond[2] \notin OPS THEN Ok(FALSE)
  ELSE apply_op(cond[2], f[cond[1]], cond[3])

\* all(...) over the generator: conditions are evaluated in order, the first
\* false one ends the iteration, an exception propagates
RECURSIVE all_from(_, _, _)
all_from(f, conds, i) ==
  IF i > Len(conds) THEN Ok(TRUE)
  ELSE LET e == evaluate_condition(f, conds[i])
       IN IF e.exc # "none" THEN e
          ELSE IF ~e.val THEN Ok(FALSE)
          ELSE all_from(f, conds, i + 1)

RECURSIVE any_from(_, _, _)
any_from(f, conds, i) ==
  IF i > Len(conds) THEN Ok(FALSE)
  ELSE LET e == evaluate_condition(f, conds[i])
       IN IF e.exc # "none" THEN e
          ELSE IF e.val THEN Ok(TRUE)
          ELSE any_from(f, conds, i + 1)

rule_matches_any(f, rule) ==
  IF "conditions" \notin DOMAIN rule THEN Raise("KeyError")
  ELSE any_from(f, rule.conditions, 1)

rule_matches(f, rule) ==
  IF "conditions" \notin DOMAIN rule THEN Raise("KeyError")
  ELSE all_from(f, rule.conditions, 1)

\* [r for r in rules if rule_matches(facts, r)]: val is the list built so far
RECURSIVE matched_from(_, _, _, _)
matched_from(f, rs, i, acc) ==
  IF i > Len(rs) THEN [exc |-> "none", val |-> acc]
  ELSE LET m == rule_matches(f, rs[i])
       IN IF m.exc # "none" THEN [exc |-> m.exc, val |-> <<>>]
          ELSE matched_from(f, rs, i + 1, IF m.val THEN Append(acc, rs[i]) ELSE acc)

\* insert r behind every element whose priority is at least r's
insert_desc(sorted, r) ==
  LET k == Cardinality({j \in 1..Len(sorted) : sorted[j].priority >= r.priority})
  IN SubSeq(sorted, 1, k) \o <<r>> \o SubSeq(sorted, k + 1, Len(sorted))

RECURSIVE sort_from(_, _, _)
sort_from(rs, i, acc) ==
  IF i > Len(rs) THEN acc ELSE sort_from(rs, i + 1, insert_desc(acc, rs[i]))

RECURSIVE reverse(_)
reverse(s) == IF s = <<>> THEN <<>> ELSE Append(reverse(Tail(s)), Head(s))

\* insert r behind every element whose priority is at most r's
insert_asc(sorted, r) ==
  LET k == Cardinality({j \in 1..Len(sorted) : sorted[j].priority <= r.priority})
  IN SubSeq(sorted, 1, k) \o <<r>> \o SubSeq(sorted, k + 1, Len(sorted))

RECURSIVE sort_asc_from(_, _, _)
sort_asc_from(rs, i, acc) ==
  IF i > Len(rs) THEN acc ELSE sort_asc_from(rs, i + 1, insert_asc(acc, rs[i]))

\* an ascending sort read backwards: equal priorities come out reversed
sorted_by_priority_reversed(rs) == reverse(sort_asc_from(rs, 1, <<>>))

\* sorted(matched, key=lambda r: r["priority"], reverse=True): a stable sort,
\* and reverse=True keeps the input order of equal keys
sorted_by_priority(rs) == sort_from(rs, 1, <<>>)

NoAction == [decision |-> "", reason |-> ""]
FALLBACK == [decision |-> "REVIEW", reason |-> "No rule matched"]

RunRaise(e) == [exc |-> e, action |-> NoAction, matched |-> <<>>]
RunReturn(a, m) == [exc |-> "none", action |-> a, matched |-> m]

\* the tail of run_rules, from the test of `matched` on
rank(matched) ==
  IF matched = <<>> THEN RunReturn(FALLBACK, <<>>)
  ELSE IF \E i \in 1..Len(matched) : "priority" \notin DOMAIN matched[i]
       THEN RunRaise("KeyError")
  ELSE LET matched_sorted == sorted_by_priority(matched)
       IN IF "action" \notin DOMAIN matched_sorted[1] THEN RunRaise("KeyError")
          ELSE RunReturn(matched_sorted[1].action, matched_sorted)

rank_last(matched) ==
  IF matched = <<>> THEN RunReturn(FALLBACK, <<>>)
  ELSE LET matched_sorted == sorted_by_priority(matched)
       IN RunReturn(matched_sorted[Len(matched_sorted)].action, matched_sorted)

run_rules_last(f, rs) ==
  LET m == matched_from(f, rs, 1, <<>>)
  IN IF m.exc # "none" THEN RunRaise(m.exc) ELSE rank_last(m.val)

run_rules_reject(f, rs) ==
  LET m == matched_from(f, rs, 1, <<>>)
  IN IF m.exc # "none" THEN RunRaise(m.exc)
     ELSE IF m.val = <<>>
          THEN RunReturn([decision |-> "REJECT", reason |-> "No rule matched"], <<>>)
          ELSE rank(m.val)

run_rules(f, rs) ==
  LET m == matched_from(f, rs, 1, <<>>)
  IN IF m.exc # "none" THEN RunRaise(m.exc) ELSE rank(m.val)


\* the default rule set with the need-based threshold lowered to cgpa >= 2.0
DEFAULT_RULES_lenient ==
  << [name |-> "Top merit candidate", priority |-> 100,
      conditions |-> << <<"cgpa", ">=", Num(370)>>,
                        <<"co_curricular_score", ">=", Num(80)>>,
                        <<"family_income", "<=", Num(8000)>>,
                        <<"disciplinary_actions", "==", Num(0)>> >>,
      action |-> [decision |-> "AWARD_FULL",
                  reason |-> "Excellent academic & co-curricular performance with acceptable need"]],
     [name |-> "Good candidate - partial scholarship", priority |-> 80,
      conditions |-> << <<"cgpa", ">=", Num(330)>>,
                        <<"co_curricular_score", ">=", Num(60)>>,
                        <<"family_income", "<=", Num(12000)>>,
                        <<"disciplinary_actions", "<=", Num(1)>> >>,
      action |-> [decision |-> "AWARD_PARTIAL",
                  reason |-> "Good academic & involvement record with moderate need"]],
     [name |-> "Need-based review", priority |-> 70,
      conditions |-> << <<"cgpa", ">=", Num(200)>>,
                        <<"family_income", "<=", Num(4000)>> >>,
      action |-> [decision |-> "REVIEW",
                  reason |-> "High need but borderline academic score"]],
     [name |-> "Low CGPA - not eligible", priority |-> 95,
      conditions |-> << <<"cgpa", "<", Num(250)>> >>,
      action |-> [decision |-> "REJECT",
                  reason |-> "CGPA below minimum scholarship requirement"]],
     [name |-> "Serious disciplinary record", priority |-> 90,
      conditions |-> << <<"disciplinary_actions", ">=", Num(2)>> >>,
      action |-> [decision |-> "REJECT",
                  reason |-> "Too many disciplinary records"]] >>

\* the default rule set; cgpa thresholds in hundredths, and the dash of the
\* fourth rule's name written as a hyphen
DEFAULT_RULES ==
  << [name |-> "Top merit candidate", priority |-> 100,
      conditions |-> << <<"cgpa", ">=", Num(370)>>,
                        <<"co_curricular_score", ">=", Num(80)>>,
                        <<"family_income", "<=", Num(8000)>>,
                        <<"disciplinary_actions", "==", Num(0)>> >>,
      action |-> [decision |-> "AWARD_FULL",
                  reason |-> "Excellent academic & co-curricular performance with acceptable need"]],
     [name |-> "Good candidate - partial scholarship", priority |-> 80,
      conditions |-> << <<"cgpa", ">=", Num(330)>>,
                        <<"co_curricular_score", ">=", Num(60)>>,
                        <<"family_income", "<=", Num(12000)>>,
                        <<"disciplinary_actions", "<=", Num(1)>> >>,
      action |-> [decision |-> "AWARD_PARTIAL",
                  reason |-> "Good academic & involvement record with moderate need"]],
     [name |-> "Need-based review", priority |-> 70,
      conditions |-> << <<"cgpa", ">=", Num(250)>>,
                        <<"family_income", "<=", Num(4000)>> >>,
      action |-> [decision |-> "REVIEW",
                  reason |-> "High need but borderline academic score"]],
     [name |-> "Low CGPA - not eligible", priority |-> 95,
      conditions |-> << <<"cgpa", "<", Num(250)>> >>,
      action |-> [decision |-> "REJECT",
                  reason |-> "CGPA below minimum scholarship requirement"]],
     [name |-> "Serious disciplinary record", priority |-> 90,
      conditions |-> << <<"disciplinary_actions", ">=", Num(2)>> >>,
      action |-> [decision |-> "REJECT",
                  reason |-> "Too many disciplinary records"]] >>

(* ---------------- the script: form, rule editor, evaluation ---------------- *)
\* the facts dict built from the six number inputs
form_facts(cgpa, income, co_curricular, service_hours, semester, disciplinary) ==
  [cgpa |-> Num(cgpa), family_income |-> Num(income),
   co_curricular_score |-> Num(co_curricular),
   community_service_hours |-> Num(service_hours),
   semester |-> Num(semester), disciplinary_actions |-> Num(disciplinary)]

\* the inputs' default values
default_form == form_facts(350, 6000, 70, 30, 4, 0)

\* a rule document is text: either it parses to a JSON value or it does not
json_dumps(value) == [ok |-> TRUE, value |-> value]
invalid_text == [ok |-> FALSE, value |-> <<>>]

json_loads(doc) ==
  IF doc.ok THEN [exc |-> "none", val |-> doc.value]
  ELSE [exc |-> "JSONDecodeError", val |-> <<>>]

\* try: rules = json.loads(rules_json)  except: rules = DEFAULT_RULES
load_rules(doc) ==
  LET p == json_loads(doc) IN IF p.exc = "none" THEN p.val ELSE DEFAULT_RULES

NoOutcome == [exc |-> "notrun", action |-> NoAction, matched |-> <<>>]
NoReturn == [exc |-> "nocall"]
NoCall == [fn |-> "none", facts |-> <<>>, arg |-> <<>>]

\* one run of the script with the widgets' values: the button's value is
\* True only in the run its press triggers
script(f, doc, pressed) ==
  /\ facts' = f
  /\ rules_json' = doc
  /\ run' = pressed
  /\ rules' = load_rules(doc)
  /\ outcome' = IF pressed THEN run_rules(f, load_rules(doc)) ELSE NoOutcome

(* ---------------- inputs ---------------- *)
\* form values the user enters: the default, scenarios A to D of the
\* specification, and three more applicants
ScenarioA == form_facts(380, 5000, 85, 30, 4, 0)
ScenarioB == form_facts(200, 3000, 0, 30, 4, 0)
ScenarioC == form_facts(390, 5000, 90, 30, 4, 3)
ScenarioD == form_facts(300, 20000, 10, 30, 4, 0)

FormPool ==
  << default_form, ScenarioA, ScenarioB, ScenarioC, ScenarioD,
     form_facts(340, 10000, 65, 0, 1, 1),
     form_facts(300, 3500, 10, 5, 10, 0),
     form_facts(200, 3000, 0, 30, 4, 2) >>

A_rule(d) == [decision |-> d, reason |-> "r"]

\* documents typed into the rule editor
DocPool ==
  << json_dumps(DEFAULT_RULES),
     invalid_text,
     json_dumps(<<>>),
     json_dumps(<< [name |-> "no priority", conditions |-> <<>>,
                    action |-> A_rule("AWARD_FULL")] >>),
     json_dumps(<< [name |-> "no conditions", priority |-> 1,
                    action |-> A_rule("AWARD_FULL")] >>),
     json_dumps(<< [name |-> "no action", priority |-> 1, conditions |-> <<>>] >>),
     json_dumps(<< [priority |-> 1, conditions |-> <<>>,
                    action |-> A_rule("AWARD_FULL")] >>),
     json_dumps(<< [name |-> "arity", priority |-> 1,
                    conditions |-> << <<"cgpa", ">=">> >>,
                    action |-> A_rule("AWARD_FULL")] >>),
     json_dumps(<< [name |-> "catch-all", priority |-> 1, conditions |-> <<>>,
                    action |-> A_rule("REVIEW")],
                   [name |-> "high", priority |-> 5,
                    conditions |-> << <<"cgpa", ">=", Num(300)>> >>,
                    action |-> A_rule("AWARD_PARTIAL")] >>) >>

\* fact mappings handed to the engine's functions directly
EmptyFacts == [k \in {} |-> Num(0)]

FactsPool ==
  << EmptyFacts,
     [x |-> Num(1)],
     [x |-> Num(2), s |-> Str(<<1>>)],
     [x |-> Num(1), l |-> List(<<Num(1), Str(<<1>>)>>)],
     [s |-> Str(<<1, 2>>), l |-> List(<<>>)],
     [x |-> Str(<<2>>), s |-> Str(<<>>), l |-> List(<<Num(2)>>)],
     ScenarioB >>

Fields == {"x", "s", "l", "zz"}
OpSymbols == OPS \cup {"~=", "=<"}
Literals ==
  << Num(1), Num(2), Str(<<1>>), Str(<<1, 2>>),
     List(<<Num(1)>>), List(<<Num(2), Str(<<1>>)>>) >>

\* conditions used to build rules
CondPool ==
  << <<"x", ">=", Num(1)>>,
     <<"x", "==", Num(2)>>,
     <<"x", "<", Str(<<1>>)>>,
     <<"zz", "<", Num(1)>>,
     <<"x", "~=", Num(1)>>,
     <<"x", "in", List(<<Num(1)>>)>>,
     <<"x", "in", Num(1)>>,
     <<"s", "not_in", Str(<<1, 2>>)>> >>

RulePool ==
  << [name |-> "all", priority |-> 1, conditions |-> <<>>,
      action |-> A_rule("REVIEW")],
     [name |-> "hi", priority |-> 2, conditions |-> << CondPool[1] >>,
      action |-> A_rule("AWARD_FULL")],
     [name |-> "hi2", priority |-> 2, conditions |-> << CondPool[2] >>,
      action |-> A_rule("AWARD_PARTIAL")],
     [name |-> "lo", priority |-> 1, conditions |-> << CondPool[6] >>,
      action |-> A_rule("REJECT")],
     [name |-> "badop", priority |-> 3, conditions |-> << CondPool[5] >>,
      action |-> A_rule("REJECT")],
     [name |-> "absent", priority |-> 3, conditions |-> << CondPool[1], CondPool[4] >>,
      action |-> A_rule("AWARD_FULL")],
     [name |-> "mistyped", priority |-> 2, conditions |-> << CondPool[3] >>,
      action |-> A_rule("AWARD_PARTIAL")] >>

(* ---------------- state machine ---------------- *)
\* the widgets' state after the first run of the script: default values,
\* button not pressed
AppStart ==
  /\ facts = default_form
  /\ rules_json = json_dumps(DEFAULT_RULES)
  /\ run = FALSE
  /\ rules = DEFAULT_RULES
  /\ outcome = NoOutcome

app_vars == <<facts, rules_json, run, rules, outcome>>

Pending(fn, f, arg) == call = [fn |-> fn, facts |-> f, arg |-> arg] /\ ret = NoReturn

\* the engine's functions are pure: a behaviour is one call, its arguments
\* drawn from the pools, and its return
Init ==
  /\ AppStart
  /\ \E fi \in DOMAIN FactsPool :
       \/ \E fld \in Fields, op \in OpSymbols, li \in DOMAIN Literals :
            Pending("evaluate_condition", FactsPool[fi], <<fld, op, Literals[li]>>)
       \/ \E k \in 0..MaxConds : \E ix \in [1..k -> DOMAIN CondPool] :
            Pending("rule_matches", FactsPool[fi],
                    [name |-> "r", priority |-> 1,
                     conditions |-> [i \in 1..k |-> CondPool[ix[i]]],
                     action |-> A_rule("REVIEW")])
       \/ \E k \in 0..MaxRules : \E ix \in [1..k -> DOMAIN RulePool] :
            Pending("run_rules", FactsPool[fi], [i \in 1..k |-> RulePool[ix[i]]])

CallEvaluateCondition ==
  /\ call.fn = "evaluate_condition" /\ ret.exc = "nocall"
  /\ ret' = evaluate_condition(call.facts, call.arg)
  /\ UNCHANGED <<call, app_vars>>

CallRuleMatches ==
  /\ call.fn = "rule_matches" /\ ret.exc = "nocall"
  /\ ret' = rule_matches(call.facts, call.arg)
  /\ UNCHANGED <<call, app_vars>>

CallRunRules ==
  /\ call.fn = "run_rules" /\ ret.exc = "nocall"
  /\ ret' = run_rules(call.facts, call.arg)
  /\ UNCHANGED <<call, app_vars>>

Next == CallEvaluateCondition \/ CallRuleMatches \/ CallRunRules

Spec == Init /\ [][Next]_vars

AppInit == AppStart /\ call = NoCall /\ ret = NoReturn

\* a changed number input reruns the script
EditFacts ==
  \E i \in DOMAIN FormPool :
    /\ FormPool[i] # facts
    /\ script(FormPool[i], rules_json, FALSE)
    /\ UNCHANGED <<call, ret>>

\* a changed rule text reruns the script
EditRules ==
  \E i \in DOMAIN DocPool :
    /\ DocPool[i] # rules_json
    /\ script(facts, DocPool[i], FALSE)
    /\ UNCHANGED <<call, ret>>

\* the Evaluate button reruns the script with run = True
PressEvaluate ==
  /\ script(facts, rules_json, TRUE)
  /\ UNCHANGED <<call, ret>>

AppNext == EditFacts \/ EditRules \/ PressEvaluate

AppSpec == AppInit /\ [][AppNext]_vars

(* ---------------- properties ---------------- *)
Returned(fn) == call.fn = fn /\ ret.exc # "nocall"

\* the condition evaluates to true on F
Holds(F, c) == evaluate_condition(F, c) = Ok(TRUE)

\* every condition of r evaluates to true on F
Matches(F, r) == \A k \in DOMAIN r.conditions : Holds(F, r.conditions[k])

\* some condition of r evaluates to false and every one before it to true
Fails(F, r) ==
  \E k \in DOMAIN r.conditions :
    /\ evaluate_condition(F, r.conditions[k]) = Ok(FALSE)
    /\ \A j \in 1..(k - 1) : Holds(F, r.conditions[j])

Count(seq, x) == Cardinality({i \in DOMAIN seq : seq[i] = x})

HasUnknownOp(r) == \E k \in DOMAIN r.conditions : r.conditions[k][2] \notin OPS

WithoutUnknownOps(rs) == LET Keep(r) == ~HasUnknownOp(r) IN SelectSeq(rs, Keep)

\* C1: the matched list run_rules returns is ordered by priority descending,
\* and the matched rules of one priority appear in it in the order they have
\* in the input collection.
C1_StableRanking ==
  (Returned("run_rules") /\ ret.exc = "none") =>
    LET m == ret.matched
    IN /\ \A i, j \in DOMAIN m : i < j => m[i].priority >= m[j].priority
       /\ \A p \in {m[i].priority : i \in DOMAIN m} :
            LET OutP(r) == r.priority = p
                InP(r) == r.priority = p /\ Matches(call.facts, r)
            IN SelectSeq(m, OutP) = SelectSeq(call.arg, InP)

\* two different matched rules of equal priority, ranked above a rule that
\* came before them in the input
C1_Witness ==
  /\ Returned("run_rules") /\ ret.exc = "none"
  /\ Len(ret.matched) = 3
  /\ ret.matched[1].priority = ret.matched[2].priority
  /\ ret.matched[1] # ret.matched[2]
  /\ ret.matched[3] = call.arg[1]
  /\ ret.matched[3].priority < ret.matched[1].priority

\* C2: when the matched list is non-empty, the governing action is the action
\* of its first element, a matching rule of maximal priority among the
\* matching rules of the collection.
C2_GoverningAction ==
  (Returned("run_rules") /\ ret.exc = "none" /\ ret.matched # <<>>) =>
    /\ ret.action = ret.matched[1].action
    /\ \E i \in DOMAIN call.arg :
         /\ call.arg[i] = ret.matched[1]
         /\ Matches(call.facts, call.arg[i])
         /\ \A j \in DOMAIN call.arg :
              Matches(call.facts, call.arg[j]) => call.arg[j].priority <= call.arg[i].priority

\* several rules of different priorities and actions matched, the top one
\* not first in the input
C2_Witness ==
  /\ Returned("run_rules") /\ ret.exc = "none"
  /\ Len(ret.matched) >= 2
  /\ ret.matched[1].priority > ret.matched[Len(ret.matched)].priority
  /\ ret.matched[1].action # ret.matched[Len(ret.matched)].action
  /\ call.arg[1] # ret.matched[1]
  /\ ret.action = ret.matched[1].action

C4_ExactlyTheMatching ==
  /\ (Returned("run_rules") /\ ret.exc = "none") =>
       /\ \A i \in DOMAIN ret.matched : \E j \in DOMAIN call.arg : call.arg[j] = ret.matched[i]
       /\ \A j \in DOMAIN call.arg :
            Count(ret.matched, call.arg[j]) =
              IF Matches(call.facts, call.arg[j]) THEN Count(call.arg, call.arg[j]) ELSE 0
  /\ (Returned("rule_matches") /\ call.arg.conditions = <<>>) => ret = Ok(TRUE)
  /\ Returned("run_rules") =>
       \A j \in DOMAIN call.arg :
         (call.arg[j].conditions = <<>> /\ ret.exc = "none") =>
           Count(ret.matched, call.arg[j]) >= 1

\* the empty fact mapping, a catch-all rule given twice and a rule that
\* does not match
C4_Witness ==
  /\ Returned("run_rules") /\ ret.exc = "none"
  /\ DOMAIN call.facts = {}
  /\ Len(call.arg) = 3
  /\ call.arg[1] = call.arg[3]
  /\ call.arg[1].conditions = <<>>
  /\ call.arg[2].conditions # <<>>
  /\ ret.matched = <<call.arg[1], call.arg[3]>>

\* C5: a condition whose field is not a key of the facts evaluates to false,
\* without an exception, whatever its operator and literal; a rule holding
\* such a condition is not in the matched list.
C5_AbsentField ==
  /\ (Returned("evaluate_condition") /\ call.arg[1] \notin DOMAIN call.facts) =>
       ret = Ok(FALSE)
  /\ (Returned("run_rules") /\ ret.exc = "none") =>
       \A j \in DOMAIN call.arg :
         (\E k \in DOMAIN call.arg[j].conditions :
            call.arg[j].conditions[k][1] \notin DOMAIN call.facts)
         => Count(ret.matched, call.arg[j]) = 0

\* an absent field under an operator that would raise on the literal
C5_Witness ==
  /\ Returned("evaluate_condition")
  /\ DOMAIN call.facts # {}
  /\ call.arg[1] \notin DOMAIN call.facts
  /\ call.arg[2] = "in"
  /\ call.arg[3].t = "num"
  /\ ret = Ok(FALSE)

\* C6: a condition whose operator symbol is not a key of OPS evaluates to
\* false without an exception, whether or not its field is present; the
\* lookup never raises KeyError, and run_rules returns what it returns for
\* the collection without the rules that hold such a condition.
C6_UnknownOperator ==
  /\ (Returned("evaluate_condition") /\ call.arg[2] \notin OPS) => ret = Ok(FALSE)
  /\ Returned("rule_matches") => ret.exc # "KeyError"
  /\ Returned("run_rules") =>
       /\ ret.exc # "KeyError"
       /\ ret.exc = "none" => ret = run_rules(call.facts, WithoutUnknownOps(call.arg))

\* a rule with an unknown operator on a present field, followed by a rule
\* that matches and is ranked
C6_Witness ==
  /\ Returned("run_rules") /\ ret.exc = "none"
  /\ Len(call.arg) >= 2
  /\ HasUnknownOp(call.arg[1])
  /\ \A k \in DOMAIN call.arg[1].conditions :
       call.arg[1].conditions[k][1] \in DOMAIN call.facts
  /\ ret.matched # <<>>
  /\ Count(ret.matched, call.arg[1]) = 0

\* C7: run_rules never raises on a well-shaped rule collection.
C7_NeverRaises == Returned("run_rules") => ret.exc = "none"

REQUIRED_KEYS == {"name", "priority", "conditions", "action"}

WellShaped(rs) ==
  \A i \in DOMAIN rs :
    /\ REQUIRED_KEYS \subseteq DOMAIN rs[i]
    /\ \A k \in DOMAIN rs[i].conditions : Len(rs[i].conditions[k]) = 3

\* C8: whenever the Evaluate button is pressed, the collection handed to
\* run_rules is a well-shaped parsed collection or the default collection.
C8_OnlyValidatedRules == run => (WellShaped(rules) \/ rules = DEFAULT_RULES)

LowCgpa == "Low CGPA - not eligible"
NeedBased == "Need-based review"

EvaluatedScenarioB == run /\ facts = ScenarioB /\ rules = DEFAULT_RULES

\* C9 (as stated): in scenario B both "Low CGPA" and "Need-based review" are
\* matched, "Low CGPA" is ranked first and the decision is REJECT.
C9_ScenarioB_AsStated ==
  EvaluatedScenarioB =>
    /\ outcome.exc = "none"
    /\ \E i \in DOMAIN outcome.matched : outcome.matched[i].name = LowCgpa
    /\ \E i \in DOMAIN outcome.matched : outcome.matched[i].name = NeedBased
    /\ outcome.matched[1].name = LowCgpa
    /\ outcome.action.decision = "REJECT"

\* C9 (amended): in scenario B "Low CGPA" (priority 95) is the only matched
\* rule, "Need-based review" is not matched, and the decision is REJECT.
C9_ScenarioB ==
  EvaluatedScenarioB =>
    /\ outcome.exc = "none"
    /\ Len(outcome.matched) = 1
    /\ outcome.matched[1].name = LowCgpa
    /\ outcome.matched[1].priority = 95
    /\ \A i \in DOMAIN outcome.matched : outcome.matched[i].name # NeedBased
    /\ outcome.action.decision = "REJECT"

C9_Witness == EvaluatedScenarioB /\ outcome.exc = "none" /\ outcome.matched # <<>>

Perms(n) == {p \in [1..n -> 1..n] : \A i, j \in 1..n : p[i] = p[j] => i = j}

\* C10: the outcome of rule_matches (true, false or an exception) is the
\* same for every permutation of the rule's conditions.
C10_OrderIrrelevant ==
  Returned("rule_matches") =>
    LET cs == call.arg.conditions
    IN \A p \in Perms(Len(cs)) :
         rule_matches(call.facts,
                      [call.arg EXCEPT !.conditions = [i \in 1..Len(cs) |-> cs[p[i]]]]) = ret

====
